---- MODULE Spec2Model ----
(***************************************************************************)
(* Model of the Pokemon scouting service: HTTP controller -> service ->    *)
(* repository -> relational table, plus the outbound PokeAPI adapter.      *)
(*                                                                         *)
(* Text (names, messages) is modelled as sequences of one-character        *)
(* strings so that lower(), strip(), f-string concatenation and the        *)
(* substring test `"already exists" in message` are computed, not assumed. *)
(* Floats are kept as integers in tenths (0.4 m -> 4, 6.0 kg -> 60).       *)
(***************************************************************************)
EXTENDS Integers, Sequences, FiniteSets, TLC

(***************************************************************************)
(* Bounds                                                                  *)
(***************************************************************************)
\* Number of distinct payload versions the external API can serve.
MaxVersion == 2
\* Longest nested list (abilities, stats, types, moves) in a remote payload.
MaxItems == 2
\* Largest primary key the table hands out before inserts are refused.
MaxId == 2
\* Latest reading of the wall clock.
MaxClock == 2
\* Longest name list handed to the batch sync.
MaxListLen == 2

(***************************************************************************)
(* Text                                                                    *)
(***************************************************************************)
Uppers == <<"A","B","C","D","E","F","G","H","I","J","K","L","M",
            "N","O","P","Q","R","S","T","U","V","W","X","Y","Z">>
Lowers == <<"a","b","c","d","e","f","g","h","i","j","k","l","m",
            "n","o","p","q","r","s","t","u","v","w","x","y","z">>
Whitespace == {" ", "\t", "\n"}

\* The case mapping of the ASCII letters
UpperToLower ==
    [c \in {Uppers[i] : i \in 1..Len(Uppers)} |->
        Lowers[CHOOSE i \in 1..Len(Uppers) : Uppers[i] = c]]

\* str.lower(), one character
LowerChar(c) == IF c \in DOMAIN UpperToLower THEN UpperToLower[c] ELSE c

\* str.lower(), character by character
LowerOf(s) == [i \in 1..Len(s) |-> LowerChar(s[i])]

\* str.strip(): drops leading and trailing whitespace, keeps inner whitespace
StripOf(s) ==
    LET keep == {i \in 1..Len(s) : s[i] \notin Whitespace}
    IN  IF keep = {} THEN <<>>
        ELSE LET lo == CHOOSE i \in keep : \A j \in keep : i <= j
                 hi == CHOOSE i \in keep : \A j \in keep : j <= i
             IN  SubSeq(s, lo, hi)

\* Python's `sub in text` on strings
Contains(text, sub) ==
    \E i \in 1..(Len(text) - Len(sub) + 1) : SubSeq(text, i, i + Len(sub) - 1) = sub

\* Names used by requests, the configuration and the tests
id142          == <<"1","4","2">>
aerodactyl     == <<"a","e","r","o","d","a","c","t","y","l">>
Aerodactyl     == <<"A","e","r","o","d","a","c","t","y","l">>
terodactyl     == <<"t","e","r","o","d","a","c","t","y","l">>
TERODACTYL     == <<"T","E","R","O","D","A","C","T","Y","L">>
terodactylSp   == <<"t","e","r","o","d","a","c","t","y","l"," ">>
Terodactyl     == <<"T","e","r","o","d","a","c","t","y","l">>
alreadyExists  == <<"a","l","r","e","a","d","y"," ","e","x","i","s","t","s">>
pikachu        == <<"p","i","k","a","c","h","u">>
dhelmise       == <<"d","h","e","l","m","i","s","e">>
charizard      == <<"c","h","a","r","i","z","a","r","d">>
parasect       == <<"p","a","r","a","s","e","c","t">>
kingler        == <<"k","i","n","g","l","e","r">>

\* The names the model's requests, payloads and rows can carry.  lower() and
\* _normalize_name are evaluated once for each of them and looked up after.
Texts == {id142, aerodactyl, Aerodactyl, terodactyl, TERODACTYL, terodactylSp,
          Terodactyl, alreadyExists, pikachu, dhelmise, charizard, parasect,
          kingler}
LowerTable == [s \in Texts |-> LowerOf(s)]

\* str.lower()
Lower(s) == IF s \in Texts THEN LowerTable[s] ELSE LowerOf(s)

\* Fragments of the service's and controller's messages
TxtPokemon      == <<"P","o","k","e","m","o","n"," ">>
TxtInDatabase   == <<" ","a","l","r","e","a","d","y"," ","e","x","i","s","t","s",
                     " ","i","n"," ","d","a","t","a","b","a","s","e">>
TxtFailedFetch  == <<"F","a","i","l","e","d"," ","t","o"," ","f","e","t","c","h",
                     " ","d","a","t","a"," ","f","o","r"," ">>
TxtMappedTo     == <<" ","(","m","a","p","p","e","d"," ","t","o"," ">>
TxtClose        == <<")">>
TxtAdded        == <<"S","u","c","c","e","s","s","f","u","l","l","y"," ",
                     "a","d","d","e","d"," ">>
TxtToDatabase   == <<" ","t","o"," ","d","a","t","a","b","a","s","e">>
TxtNotFoundLoc  == <<" ","n","o","t"," ","f","o","u","n","d"," ",
                     "l","o","c","a","l","l","y">>
TxtFailedUpdate == <<"F","a","i","l","e","d"," ","t","o"," ","f","e","t","c","h",
                     " ","u","p","d","a","t","e"," ","f","o","r"," ">>
TxtUpdated      == <<"S","u","c","c","e","s","s","f","u","l","l","y"," ",
                     "u","p","d","a","t","e","d"," ">>
TxtDeleted      == <<"S","u","c","c","e","s","s","f","u","l","l","y"," ",
                     "d","e","l","e","t","e","d"," ">>
TxtNotFound     == <<" ","n","o","t"," ","f","o","u","n","d">>
TxtPokemonNotFound == <<"P","o","k","e","m","o","n"," ","n","o","t"," ",
                        "f","o","u","n","d">>
TxtIntegrityError == <<"I","n","t","e","g","r","i","t","y","E","r","r","o","r">>

(***************************************************************************)
(* Domain service: name normalization                                      *)
(***************************************************************************)
\* self._name_mapping
NameMapping == (terodactyl :> aerodactyl)

\* _normalize_name without the correction table
NormalizeNameNoMapping(name) == StripOf(LowerOf(name))

\* PokemonService._normalize_name, computed on the characters
NormalizeNameOf(name) ==
    LET clean_name == StripOf(LowerOf(name))
    IN  IF clean_name \in DOMAIN NameMapping THEN NameMapping[clean_name] ELSE clean_name

NormalizeTable == [s \in Texts |-> NormalizeNameOf(s)]

\* PokemonService._normalize_name
NormalizeName(name) ==
    IF name \in Texts THEN NormalizeTable[name] ELSE NormalizeNameOf(name)

(***************************************************************************)
(* Inputs                                                                  *)
(***************************************************************************)
\* Raw names a request can carry in its path
RawNames == {id142, TERODACTYL, terodactylSp, Terodactyl, alreadyExists}

\* Names a configured list can hold
SyncNames == {id142, Terodactyl, alreadyExists}

\* config.POKEMON_LIST
POKEMON_LIST == <<pikachu, dhelmise, charizard, parasect, terodactyl, kingler>>

\* The lists handed to the batch sync
SyncLists == UNION {[1..n -> SyncNames] : n \in 1..MaxListLen}

(***************************************************************************)
(* Model: the Pokemon row                                                  *)
(***************************************************************************)
\* Keys of the mapping the adapter returns; all are columns of the model
DataKeys == {"name", "height", "weight", "base_experience",
             "abilities", "stats", "types", "moves"}
\* Columns of the pokemon table that a Pokemon object is given by the
\* service.  A nullable column holds <<>> for NULL and <<v>> for the value v;
\* name holds the value.  The primary key and the two timestamps are filled
\* in by the database (Inserted, Committed); no branch of the service reads
\* them, and the specifications other than FrameSpec leave them out.
Columns  == DataKeys

\* The payload of version v as the adapter hands it to the service
FullData(nm, v) ==
    [k \in DataKeys |->
        CASE k = "name"            -> nm
          [] k = "height"          -> 4 * v
          [] k = "weight"          -> 60 * v
          [] k = "base_experience" -> 112 * v
          [] k = "abilities"       -> [i \in 1..v |-> "static"]
          [] k = "stats"           -> [s \in {"speed"} |-> 90 * v]
          [] k = "types"           -> [i \in 1..v |-> "electric"]
          [] k = "moves"           -> [i \in 1..v |-> "thunder-shock"]]

\* Pokemon(**raw_data): keyword construction; columns not given stay NULL
NewPokemon(raw_data) ==
    [k \in Columns |->
        IF k = "name" THEN raw_data["name"]
        ELSE IF k \in DOMAIN raw_data THEN <<raw_data[k]>> ELSE <<>>]

\* Pokemon.to_dict: one entry per column (None for NULL is kept as <<>>)
ToDict(p) == [k \in Columns |-> p[k]]

\* id = db.Column(db.Integer, primary_key=True): SQLite gives a new row the
\* largest id in the table plus one
NextId(table) ==
    IF table = {} THEN 1
    ELSE 1 + (CHOOSE n \in {p["id"] : p \in table} : \A p \in table : p["id"] <= n)

\* The row an INSERT of `pokemon` at time `now` stores: default=datetime.now
Inserted(table, pokemon, now) ==
    pokemon @@ [id |-> NextId(table), created_at |-> now, updated_at |-> now]

\* The table after the commit at time `now` that turns `before` into `after`:
\* an object without a primary key is inserted, a row with changed attributes
\* is updated and gets onupdate=datetime.now, every other row is as it was
Committed(before, after, now) ==
    {IF "id" \notin DOMAIN p THEN Inserted(before, p, now)
     ELSE IF p \notin before THEN [p EXCEPT !["updated_at"] = now]
     ELSE p : p \in after}

\* datetime.now() for a table whose rows were stamped earlier
NowValues(table) == {t \in 1..MaxClock : \A p \in table : p["updated_at"] <= t}

(***************************************************************************)
(* External data adapter                                                   *)
(***************************************************************************)
\* What PokeAPIClient.get_pokemon returns: None, or the processed mapping
Absent       == [ok |-> FALSE]
Fetched(d)   == [ok |-> TRUE, data |-> d]

\* The path segment the adapter requests: name.lower()
RequestFor(name) == Lower(name)

\* Names the remote payload may carry for a request: data['name'] is copied
\* unchecked.  The remote can answer with the requested name, answers a
\* request by number with the name of that entry, and may spell a name in
\* its own case.
PayloadNames(req) ==
    {req} \cup (IF req = id142 THEN {aerodactyl} ELSE {})
          \cup (IF req = aerodactyl THEN {Aerodactyl} ELSE {})

\* Everything get_pokemon(req) can return
AdapterResponses(req) ==
    {Absent}
    \cup {Fetched(FullData(nm, v)) : nm \in PayloadNames(req), v \in 1..MaxVersion}

\* What requests.get(target_url, timeout=10) can end in: an exception of the
\* requests library, or a response with a status and a body
ConnectionError == [kind |-> "ConnectionError"]
Timeout         == [kind |-> "Timeout"]
HttpResponse(status, body) == [kind |-> "response", status |-> status, body |-> body]

\* The statuses the remote answers with: success, a 3xx that requests does not
\* follow (no Location header), a client error and a server error
Statuses == {200, 300, 404, 503}

\* A body that is not JSON, and the JSON object of an error answer
NotJson   == [json |-> FALSE]
ErrorBody == [json |-> TRUE, value |-> [detail |-> "Not found."]]

\* The wrapper objects of the four nested lists of a remote payload
AbilityItems == {[ability |-> [name |-> a]] : a \in {"overgrow", "chlorophyll"}}
StatItems    == {[stat |-> [name |-> "hp"], base_stat |-> 45],
                 [stat |-> [name |-> "speed"], base_stat |-> 90],
                 [stat |-> [name |-> "speed"], base_stat |-> 45]}
TypeItems    == {[type |-> [name |-> "grass"]]}
MoveItems    == {[move |-> [name |-> "cut"]]}

\* A nested list field of a payload: left out (<<>>), or present with up to
\* MaxItems items (<<list>>)
NestedField(items) ==
    {<<>>} \cup {<<l>> : l \in UNION {[1..n -> items] : n \in 0..MaxItems}}

\* One key of a JSON object, present only when the option holds a value
Entry(key, option) == IF option = <<>> THEN <<>> ELSE (key :> option[1])

\* The JSON objects the remote serves for a Pokemon: the four scalar fields
\* (height in decimetres, weight in hectograms) and any of the nested lists
Payloads ==
    {[name |-> nm, height |-> h, weight |-> 69, base_experience |-> 64]
        @@ Entry("abilities", a) @@ Entry("stats", st)
        @@ Entry("types", ty) @@ Entry("moves", mv) :
     nm \in {aerodactyl, Aerodactyl}, h \in {7, 18},
     a \in NestedField(AbilityItems), st \in NestedField(StatItems),
     ty \in NestedField(TypeItems), mv \in NestedField(MoveItems)}

Bodies == {NotJson, ErrorBody} \cup {[json |-> TRUE, value |-> d] : d \in Payloads}

\* Everything the outbound GET can end in
WireOutcomes ==
    {ConnectionError, Timeout}
    \cup {HttpResponse(status, body) : status \in Statuses, body \in Bodies}

\* A float with one decimal digit: whole + tenth/10
Decimal(whole, tenth) == [whole |-> whole, tenth |-> tenth]

\* n / 10 with the division left out
Div10NoConversion(n) == Decimal(n, 0)

\* n / 10 for the integer n of the payload
Div10(n) == Decimal(n \div 10, n % 10)

\* data.get(key, [])
GetOrEmpty(data, key) == IF key \in DOMAIN data THEN data[key] ELSE <<>>

\* [item[wrapper]['name'] for item in data.get(key, [])]
NestedNames(data, key, wrapper) ==
    LET items == GetOrEmpty(data, key)
    IN  [i \in 1..Len(items) |-> items[i][wrapper]["name"]]

\* {item['stat']['name']: item['base_stat'] for item in data.get('stats', [])}:
\* a later item of the same name replaces the earlier one
StatMapping(data) ==
    LET items == GetOrEmpty(data, "stats")
        last_of(nm) == CHOOSE i \in 1..Len(items) :
                          /\ items[i]["stat"]["name"] = nm
                          /\ \A j \in (i + 1)..Len(items) : items[j]["stat"]["name"] # nm
    IN  [nm \in {items[i]["stat"]["name"] : i \in 1..Len(items)} |->
            items[last_of(nm)]["base_stat"]]

\* The keys _process_pokemon_data reads with data[...]
RequiredKeys == {"name", "height", "weight", "base_experience"}

\* What get_pokemon ends in: None, the processed mapping, or an exception
\* that leaves it
ReturnedNone     == [kind |-> "absent"]
ReturnedData(d)  == [kind |-> "data", data |-> d]
Raised(exc)      == [kind |-> "raised", exc |-> exc]

\* PokeAPIClient._process_pokemon_data
ProcessPokemonData(data) ==
    IF ~(RequiredKeys \subseteq DOMAIN data)
    THEN Raised("KeyError")
    ELSE ReturnedData(
            [name            |-> data["name"],
             height          |-> Div10(data["height"]),
             weight          |-> Div10(data["weight"]),
             base_experience |-> data["base_experience"],
             abilities       |-> NestedNames(data, "abilities", "ability"),
             stats           |-> StatMapping(data),
             types           |-> NestedNames(data, "types", "type"),
             moves           |-> NestedNames(data, "moves", "move")])

\* Response.raise_for_status(): HTTPError for a 4xx or 5xx status, nothing
\* for any other
RaisesForStatus(status) == 400 <= status /\ status < 600

\* PokeAPIClient.get_pokemon: the results the call can end in, given how the
\* GET ended.  Every exception of requests.get and raise_for_status is a
\* RequestException and is answered with None.  response.json() on a body
\* that is not JSON raises JSONDecodeError, a RequestException since
\* requests 2.27 and a plain ValueError before, so both ends are possible.
GetPokemonResults(outcome) ==
    IF outcome.kind \in {"ConnectionError", "Timeout"} THEN {ReturnedNone}
    ELSE IF RaisesForStatus(outcome.status) THEN {ReturnedNone}
    ELSE IF ~outcome.body.json THEN {ReturnedNone, Raised("JSONDecodeError")}
    ELSE {ProcessPokemonData(outcome.body.value)}

(***************************************************************************)
(* Persistence repository                                                  *)
(***************************************************************************)
\* get_by_name with the lower() left out
GetByNameExact(table, name) == {p \in table : p["name"] = name}

\* PokemonRepository.get_by_name: filter_by(name=name.lower()); the set holds
\* the row .first() returns, or is empty
GetByName(table, name) == {p \in table : p["name"] = Lower(name)}

\* PokemonRepository.get_all
GetAll(table) == table

\* The UNIQUE constraint on name, as the INSERT of a new row meets it
InsertConflicts(table, pokemon) == \E p \in table : p["name"] = pokemon["name"]

\* The UNIQUE constraint on name, as the UPDATE of the row `loaded` meets it
UpdateConflicts(table, loaded, pokemon) ==
    \E p \in table \ {loaded} : p["name"] = pokemon["name"]

\* PokemonRepository.save of a new object: session.add + commit is an INSERT.
\* A commit that violates UNIQUE raises IntegrityError and changes nothing.
SaveNew(table, pokemon) ==
    IF InsertConflicts(table, pokemon)
    THEN [raised |-> TRUE, table |-> table, pokemon |-> pokemon]
    ELSE [raised |-> FALSE, table |-> table \cup {pokemon}, pokemon |-> pokemon]

\* PokemonRepository.save of the loaded row `loaded` after its attributes were
\* set to `pokemon`: the commit is an UPDATE of that row
SaveLoaded(table, loaded, pokemon) ==
    IF UpdateConflicts(table, loaded, pokemon)
    THEN [raised |-> TRUE, table |-> table, pokemon |-> pokemon]
    ELSE [raised |-> FALSE, table |-> (table \ {loaded}) \cup {pokemon},
          pokemon |-> pokemon]

\* PokemonRepository.delete
Delete(table, pokemon) == table \ {pokemon}

(***************************************************************************)
(* Domain service                                                          *)
(***************************************************************************)
\* PokemonService.get_pokemon: <<>> for None, <<dict>> otherwise
GetPokemon(table, name) ==
    LET normalized_name == NormalizeName(name)
        found == GetByName(table, normalized_name)
    IN  IF found # {} THEN <<ToDict(CHOOSE p \in found : TRUE)>> ELSE <<>>

\* PokemonService.get_all_pokemon
GetAllPokemon(table) == {ToDict(p) : p \in GetAll(table)}

MsgAlreadyExists(normalized_name) == TxtPokemon \o normalized_name \o TxtInDatabase
\* MsgFailedFetch with the original input left out of the text
MsgFailedFetchNormalizedOnly(name, normalized_name) ==
    TxtFailedFetch \o normalized_name \o TxtMappedTo \o normalized_name \o TxtClose

MsgFailedFetch(name, normalized_name) ==
    TxtFailedFetch \o name \o TxtMappedTo \o normalized_name \o TxtClose
MsgAdded(normalized_name) == TxtAdded \o normalized_name \o TxtToDatabase

\* add_pokemon without the idempotency check of step 1
AddPokemonNoCheck(table, name, response) ==
    LET normalized_name == NormalizeName(name)
        calls == <<RequestFor(normalized_name)>>
    IN  IF ~response.ok
        THEN [raised |-> FALSE, table |-> table, data |-> <<>>,
              msg |-> MsgFailedFetch(name, normalized_name), calls |-> calls,
              repo |-> <<>>]
        ELSE LET saved == SaveNew(table, NewPokemon(response.data))
             IN  IF saved.raised
                 THEN [raised |-> TRUE, table |-> table, data |-> <<>>,
                       msg |-> TxtIntegrityError, calls |-> calls,
                       repo |-> <<"save">>]
                 ELSE [raised |-> FALSE, table |-> saved.table,
                       data |-> <<ToDict(saved.pokemon)>>,
                       msg |-> MsgAdded(normalized_name), calls |-> calls,
                       repo |-> <<"save">>]

\* add_pokemon asking the adapter a second time when the first answer is None
AddPokemonFetchTwice(table, name, response) ==
    LET r == AddPokemonNoCheck(table, name, response)
        existing == GetByName(table, NormalizeName(name))
    IN  IF existing # {}
        THEN [raised |-> FALSE, table |-> table,
              data |-> <<ToDict(CHOOSE p \in existing : TRUE)>>,
              msg |-> MsgAlreadyExists(NormalizeName(name)), calls |-> <<>>,
              repo |-> <<"get_by_name">>]
        ELSE [r EXCEPT !.repo = <<"get_by_name">> \o @,
                       !.calls = IF response.ok THEN @ ELSE @ \o @]

\* PokemonService.add_pokemon.  `response` is what the adapter answers if it is
\* asked; `calls` lists the names the adapter was asked for and `repo` the
\* repository methods called, in order.  `raised` tells that save() raised
\* IntegrityError, which add_pokemon does not catch.
AddPokemon(table, name, response) ==
    LET normalized_name == NormalizeName(name)
        existing == GetByName(table, normalized_name)
    IN  IF existing # {}
        THEN [raised |-> FALSE, table |-> table,
              data |-> <<ToDict(CHOOSE p \in existing : TRUE)>>,
              msg |-> MsgAlreadyExists(normalized_name), calls |-> <<>>,
              repo |-> <<"get_by_name">>]
        ELSE LET r == AddPokemonNoCheck(table, name, response)
             IN  [r EXCEPT !.repo = <<"get_by_name">> \o @]

\* delete_pokemon looking the raw name up, without normalizing it
DeletePokemonRaw(table, name) ==
    LET pokemon == GetByName(table, name)
    IN  IF pokemon # {}
        THEN [ok |-> TRUE, table |-> Delete(table, CHOOSE p \in pokemon : TRUE),
              repo |-> <<"get_by_name", "delete">>]
        ELSE [ok |-> FALSE, table |-> table, repo |-> <<"get_by_name">>]

\* PokemonService.delete_pokemon
DeletePokemon(table, name) ==
    LET normalized_name == NormalizeName(name)
        pokemon == GetByName(table, normalized_name)
    IN  IF pokemon # {}
        THEN [ok |-> TRUE, table |-> Delete(table, CHOOSE p \in pokemon : TRUE),
              repo |-> <<"get_by_name", "delete">>]
        ELSE [ok |-> FALSE, table |-> table, repo |-> <<"get_by_name">>]

\* update_pokemon building a fresh Pokemon(**raw_data) in place of the loaded row
OverwriteAsNew(pokemon, raw_data) == NewPokemon(raw_data)

\* The loop `for key, value in raw_data.items(): if hasattr(...): setattr(...)`:
\* an attribute raw_data does not name keeps its value
Overwrite(pokemon, raw_data) ==
    [k \in DOMAIN pokemon |->
        IF k \in DOMAIN raw_data
        THEN (IF k = "name" THEN raw_data[k] ELSE <<raw_data[k]>>)
        ELSE pokemon[k]]

\* update_pokemon's fetch-and-overwrite half, after the local lookup succeeded
UpdateFound(table, pokemon, normalized_name, response) ==
    LET calls == <<RequestFor(normalized_name)>>
    IN  IF ~response.ok
        THEN [raised |-> FALSE, table |-> table, ok |-> FALSE,
              msg |-> TxtFailedUpdate \o normalized_name, calls |-> calls,
              repo |-> <<"get_by_name">>]
        ELSE LET saved == SaveLoaded(table, pokemon, Overwrite(pokemon, response.data))
             IN  IF saved.raised
                 THEN [raised |-> TRUE, table |-> table, ok |-> FALSE,
                       msg |-> TxtIntegrityError, calls |-> calls,
                       repo |-> <<"get_by_name", "save">>]
                 ELSE [raised |-> FALSE, table |-> saved.table, ok |-> TRUE,
                       msg |-> TxtUpdated \o normalized_name, calls |-> calls,
                       repo |-> <<"get_by_name", "save">>]

\* update_pokemon fetching before the local lookup
UpdatePokemonFetchFirst(table, name, response) ==
    LET normalized_name == NormalizeName(name)
        pokemon == GetByName(table, normalized_name)
    IN  IF ~response.ok \/ pokemon = {}
        THEN [raised |-> FALSE, table |-> table, ok |-> FALSE,
              msg |-> TxtFailedUpdate \o normalized_name,
              calls |-> <<RequestFor(normalized_name)>>,
              repo |-> <<"get_by_name">>]
        ELSE UpdateFound(table, CHOOSE p \in pokemon : TRUE, normalized_name, response)

\* PokemonService.update_pokemon
UpdatePokemon(table, name, response) ==
    LET normalized_name == NormalizeName(name)
        pokemon == GetByName(table, normalized_name)
    IN  IF pokemon = {}
        THEN [raised |-> FALSE, table |-> table, ok |-> FALSE,
              msg |-> TxtPokemon \o normalized_name \o TxtNotFoundLoc, calls |-> <<>>,
              repo |-> <<"get_by_name">>]
        ELSE UpdateFound(table, CHOOSE p \in pokemon : TRUE, normalized_name, response)

\* The branch of sync_config_list's loop body an add outcome takes:
\* logger.info(msg), logger.info("Skipping ..."), or logger.error(msg)
Bucket(data, msg) ==
    IF data # <<>> /\ ~Contains(msg, alreadyExists) THEN "added"
    ELSE IF Contains(msg, alreadyExists) THEN "skipped"
    ELSE "failed"

(***************************************************************************)
(* HTTP controller                                                         *)
(***************************************************************************)
\* The status add_pokemon's route picks from (data, message)
AddStatus(data, message) ==
    IF data # <<>>
    THEN (IF Contains(message, alreadyExists) THEN 202 ELSE 201)
    ELSE 404

(***************************************************************************)
(* State                                                                   *)
(***************************************************************************)
VARIABLES
    store,   \* the rows of the pokemon table
    last,    \* the most recent request and the response it got
    sync,    \* the batch sync in progress or just finished
    procs,   \* the requests the server's worker threads are in the middle of
    fetch    \* the most recent outbound GET of the adapter and its result

\* The variables the one-request-at-a-time specification leaves alone
others == <<procs, fetch>>

vars == <<store, last, sync, procs, fetch>>

\* A response record.  fetched is <<>> when the adapter was not asked; calls
\* are the adapter requests and repo the repository calls the request made
\* (those of a batch sync are kept in sync.calls and sync.repo).
Response(op, name, status, message, pokemon, calls, fetched, repo) ==
    [op |-> op, name |-> name, status |-> status, message |-> message,
     pokemon |-> pokemon, calls |-> calls, fetched |-> fetched, repo |-> repo]

NoRequest == Response("none", <<>>, 0, <<>>, <<>>, <<>>, <<>>, <<>>)
SyncRequest == Response("sync", <<>>, 0, <<>>, <<>>, <<>>, <<>>, <<>>)

\* What the adapter answered, given whether it was asked
Answer(calls, response) == IF calls = <<>> THEN <<>> ELSE <<response>>

\* The names of the stored rows
Names(table) == {p["name"] : p \in table}

\* No batch sync running.  pc is "idle", "run" (inside the loop), "done"
\* (the loop finished) or "raised" (an exception left the loop);
\* rest are the names still to process, log the bucket of each name done,
\* before the stored names when the sync began, fetched the normalized names
\* the adapter returned data for, calls the adapter requests and repo the
\* repository calls made so far.
NoSync == [pc |-> "idle", rest |-> <<>>, log |-> <<>>,
           before |-> {}, fetched |-> {}, calls |-> <<>>, repo |-> <<>>]

\* The worker threads of the server (app.run serves each request on a thread)
Threads == {"t1", "t2"}

\* A thread between requests.  pc is "idle", "lookup" (before get_by_name),
\* "fetch" (before api_client.get_pokemon), "save" (before repository.save),
\* "done" (the request returned) or "raised" (an exception left it); names are
\* the names the request still has to add, data the mapping just fetched.
IdleThread == [pc |-> "idle", op |-> "none", names |-> <<>>, data |-> <<>>]

\* No outbound GET in progress: name is get_pokemon's argument, path the last
\* segment of target_url, outcome how the GET ended, result what get_pokemon
\* ended in ("pending" while it has not)
NoFetch == [name |-> <<>>, path |-> <<>>, outcome |-> [kind |-> "idle"],
            result |-> [kind |-> "idle"]]

\* create_app: db.create_all() on an empty database
Init ==
    /\ store = {}
    /\ last = NoRequest
    /\ sync = NoSync
    /\ procs = [t \in Threads |-> IdleThread]
    /\ fetch = NoFetch

\* Requests are served one at a time: none starts before the sync returned
Serving == sync.pc = "idle"

\* GET /pokemon
ListAll ==
    /\ Serving
    /\ last' = Response("list", <<>>, 200, <<>>, GetAllPokemon(store), <<>>, <<>>,
                        <<"get_all">>)
    /\ UNCHANGED <<store, sync>>
    /\ UNCHANGED others

\* GET /pokemon/<name>
GetOne(name) ==
    LET data == GetPokemon(store, name)
    IN  /\ Serving
        /\ last' = IF data # <<>>
                   THEN Response("get", name, 200, <<>>, data, <<>>, <<>>,
                                 <<"get_by_name">>)
                   ELSE Response("get", name, 404, TxtPokemonNotFound, <<>>, <<>>, <<>>,
                                 <<"get_by_name">>)
        /\ UNCHANGED sync
        /\ UNCHANGED store
        /\ UNCHANGED others

\* POST /pokemon/<name>; an uncaught IntegrityError becomes a 500
AddRoute(name, response) ==
    LET r == AddPokemon(store, name, response)
    IN  /\ Serving
        /\ store' = r.table
        /\ last' = Response("add", name,
                            IF r.raised THEN 500 ELSE AddStatus(r.data, r.msg),
                            r.msg, r.data, r.calls, Answer(r.calls, response), r.repo)
        /\ UNCHANGED sync
        /\ UNCHANGED others

\* DELETE /pokemon/<name>
DeleteRoute(name) ==
    LET r == DeletePokemon(store, name)
    IN  /\ Serving
        /\ store' = r.table
        /\ last' = IF r.ok
                   THEN Response("delete", name, 200, TxtDeleted \o name, <<>>, <<>>, <<>>,
                                 r.repo)
                   ELSE Response("delete", name, 404,
                                 TxtPokemon \o name \o TxtNotFound, <<>>, <<>>, <<>>,
                                 r.repo)
        /\ UNCHANGED sync
        /\ UNCHANGED others

\* PUT or PATCH /pokemon/<name>
UpdateRoute(name, response) ==
    LET r == UpdatePokemon(store, name, response)
    IN  /\ Serving
        /\ store' = r.table
        /\ last' = Response("update", name,
                            IF r.raised THEN 500 ELSE IF r.ok THEN 200 ELSE 404,
                            r.msg, <<>>, r.calls, Answer(r.calls, response), r.repo)
        /\ UNCHANGED sync
        /\ UNCHANGED others

\* PokemonService.sync_config_list(pokemon_list): entry
SyncStart(pokemon_list) ==
    /\ Serving
    /\ sync' = [pc |-> "run", rest |-> pokemon_list,
                log |-> <<>>, before |-> Names(store), fetched |-> {},
                calls |-> <<>>, repo |-> <<>>]
    /\ last' = SyncRequest
    /\ UNCHANGED store
    /\ UNCHANGED others

\* One pass of `for name in pokemon_list`: add_pokemon, then the bucket
SyncStep ==
    /\ sync.pc = "run"
    /\ sync.rest # <<>>
    /\ \E response \in AdapterResponses(RequestFor(NormalizeName(Head(sync.rest)))) :
       LET name == Head(sync.rest)
           r == AddPokemon(store, name, response)
           got == IF r.calls # <<>> /\ response.ok THEN {NormalizeName(name)} ELSE {}
       IN  /\ store' = r.table
           /\ sync' = IF r.raised
                      THEN [sync EXCEPT !.pc = "raised",
                                        !.fetched = sync.fetched \cup got,
                                        !.calls = sync.calls \o r.calls,
                                        !.repo = sync.repo \o r.repo]
                      ELSE [sync EXCEPT !.rest = Tail(sync.rest),
                                        !.log = Append(sync.log, Bucket(r.data, r.msg)),
                                        !.fetched = sync.fetched \cup got,
                                        !.calls = sync.calls \o r.calls,
                                        !.repo = sync.repo \o r.repo]
    /\ UNCHANGED last
    /\ UNCHANGED others

\* The loop is exhausted: sync_config_list returns
SyncEnd ==
    /\ sync.pc = "run"
    /\ sync.rest = <<>>
    /\ sync' = [sync EXCEPT !.pc = "done"]
    /\ UNCHANGED <<store, last>>
    /\ UNCHANGED others

\* The caller of sync_config_list (the refresh route, the startup script)
\* gets control back, by return or by the exception
SyncReturn ==
    /\ sync.pc \in {"done", "raised"}
    /\ last' = Response("sync", <<>>, IF sync.pc = "done" THEN 200 ELSE 500,
                        <<>>, <<>>, <<>>, <<>>, <<>>)
    /\ sync' = NoSync
    /\ UNCHANGED store
    /\ UNCHANGED others

Next ==
    \/ ListAll
    \/ \E name \in RawNames : GetOne(name)
    \/ \E name \in RawNames :
          \E response \in AdapterResponses(RequestFor(NormalizeName(name))) :
              AddRoute(name, response)
    \/ \E name \in RawNames : DeleteRoute(name)
    \/ \E name \in RawNames :
          \E response \in AdapterResponses(RequestFor(NormalizeName(name))) :
              UpdateRoute(name, response)
    \/ \E pokemon_list \in SyncLists : SyncStart(pokemon_list)
    \/ SyncStep
    \/ SyncEnd
    \/ SyncReturn

Spec == Init /\ [][Next]_vars

(***************************************************************************)
(* Requests served concurrently: add_pokemon step by step on each thread   *)
(***************************************************************************)
\* Raw names of the concurrent add requests
ConcNames == {Terodactyl, terodactylSp, alreadyExists}

\* Lists of the concurrent batch syncs
ConcLists == UNION {[1..n -> {Terodactyl, alreadyExists}] : n \in 1..MaxListLen}

\* A thread takes a request: POST /pokemon/<name> is add_pokemon(name),
\* POST /refresh is the loop of add_pokemon over its list
Accept(t, op, names) ==
    /\ procs[t].pc = "idle"
    /\ procs' = [procs EXCEPT ![t] = [pc |-> "lookup", op |-> op,
                                      names |-> names, data |-> <<>>]]
    /\ UNCHANGED <<store, last, sync, fetch>>

\* The thread's state once add_pokemon returned for the current name: the
\* loop goes on to the next name, or the request returns
AfterAdd(thread) ==
    IF Tail(thread.names) = <<>>
    THEN [thread EXCEPT !.pc = "done", !.names = <<>>, !.data = <<>>]
    ELSE [thread EXCEPT !.pc = "lookup", !.names = Tail(thread.names), !.data = <<>>]

\* add_pokemon step 1: existing = repository.get_by_name(normalized_name)
Lookup(t) ==
    /\ procs[t].pc = "lookup"
    /\ LET normalized_name == NormalizeName(Head(procs[t].names))
       IN  procs' = [procs EXCEPT ![t] =
                        IF GetByName(store, normalized_name) # {}
                        THEN AfterAdd(procs[t])
                        ELSE [procs[t] EXCEPT !.pc = "fetch"]]
    /\ UNCHANGED <<store, last, sync, fetch>>

\* add_pokemon step 2: raw_data = api_client.get_pokemon(normalized_name)
Fetch(t) ==
    /\ procs[t].pc = "fetch"
    /\ \E response \in AdapterResponses(RequestFor(NormalizeName(Head(procs[t].names)))) :
          procs' = [procs EXCEPT ![t] =
                       IF ~response.ok
                       THEN AfterAdd(procs[t])
                       ELSE [procs[t] EXCEPT !.pc = "save", !.data = <<response.data>>]]
    /\ UNCHANGED <<store, last, sync, fetch>>

\* add_pokemon step 3: repository.save(Pokemon(**raw_data))
Save(t) ==
    /\ procs[t].pc = "save"
    /\ LET saved == SaveNew(store, NewPokemon(procs[t].data[1]))
       IN  /\ store' = saved.table
           /\ procs' = [procs EXCEPT ![t] =
                            IF saved.raised
                            THEN [procs[t] EXCEPT !.pc = "raised"]
                            ELSE AfterAdd(procs[t])]
    /\ UNCHANGED <<last, sync, fetch>>

\* The response is sent (or the exception answered with 500); the thread is
\* free for the next request
Finish(t) ==
    /\ procs[t].pc \in {"done", "raised"}
    /\ procs' = [procs EXCEPT ![t] = IdleThread]
    /\ UNCHANGED <<store, last, sync, fetch>>

ConcNext ==
    \/ \E t \in Threads : \E name \in ConcNames : Accept(t, "add", <<name>>)
    \/ \E pokemon_list \in ConcLists : Accept("t2", "sync", pokemon_list)
    \/ \E t \in Threads : Lookup(t)
    \/ \E t \in Threads : Fetch(t)
    \/ \E t \in Threads : Save(t)
    \/ \E t \in Threads : Finish(t)

ConcSpec == Init /\ [][ConcNext]_vars

(***************************************************************************)
(* The table with its generated columns: add, update and delete with each *)
(* row carrying id, created_at and updated_at                              *)
(***************************************************************************)
\* Raw names of the requests
FrameNames == {Terodactyl, terodactylSp}

\* to_dict() of the row the service returned, with the generated columns
Returned(table, data) ==
    IF data = <<>> THEN <<>>
    ELSE <<CHOOSE p \in table : p["name"] = data[1]["name"]>>

\* POST /pokemon/<name> at time now
FrameAdd(name, response, now) ==
    LET r == AddPokemon(store, name, response)
    IN  /\ NextId(store) <= MaxId
        /\ store' = Committed(store, r.table, now)
        /\ last' = Response("add", name,
                            IF r.raised THEN 500 ELSE AddStatus(r.data, r.msg),
                            r.msg, Returned(store', r.data), r.calls,
                            Answer(r.calls, response), r.repo)
        /\ UNCHANGED <<sync, procs, fetch>>

\* PUT or PATCH /pokemon/<name> at time now
FrameUpdate(name, response, now) ==
    LET r == UpdatePokemon(store, name, response)
    IN  /\ store' = Committed(store, r.table, now)
        /\ last' = Response("update", name,
                            IF r.raised THEN 500 ELSE IF r.ok THEN 200 ELSE 404,
                            r.msg, <<>>, r.calls, Answer(r.calls, response), r.repo)
        /\ UNCHANGED <<sync, procs, fetch>>

\* DELETE /pokemon/<name>
FrameDelete(name) ==
    /\ DeleteRoute(name)

FrameNext ==
    \/ \E name \in FrameNames :
          \E response \in AdapterResponses(RequestFor(NormalizeName(name))) :
              \E now \in NowValues(store) : FrameAdd(name, response, now)
    \/ \E name \in FrameNames :
          \E response \in AdapterResponses(RequestFor(NormalizeName(name))) :
              \E now \in NowValues(store) : FrameUpdate(name, response, now)
    \/ \E name \in FrameNames : FrameDelete(name)

FrameSpec == Init /\ [][FrameNext]_vars

(***************************************************************************)
(* The adapter on its own: one call of get_pokemon per behaviour           *)
(***************************************************************************)
\* get_pokemon(name) was called and its GET ended in some outcome
AdapterInit ==
    /\ store = {}
    /\ last = NoRequest
    /\ sync = NoSync
    /\ procs = [t \in Threads |-> IdleThread]
    /\ \E outcome \in WireOutcomes :
          fetch = [name |-> Aerodactyl, path |-> RequestFor(Aerodactyl),
                   outcome |-> outcome, result |-> [kind |-> "pending"]]

\* get_pokemon handles the outcome and returns or raises
GetPokemonReturns ==
    /\ fetch.result.kind = "pending"
    /\ \E result \in GetPokemonResults(fetch.outcome) :
          fetch' = [fetch EXCEPT !.result = result]
    /\ UNCHANGED <<store, last, sync, procs>>

AdapterNext == GetPokemonReturns

AdapterSpec == AdapterInit /\ [][AdapterNext]_vars

(***************************************************************************)
(* The refresh endpoint on its own: every request is POST /refresh         *)
(***************************************************************************)
\* POST /refresh: refresh_data calls sync_config_list(POKEMON_LIST)
Refresh == SyncStart(POKEMON_LIST)

RefreshNext ==
    \/ Refresh
    \/ SyncStep
    \/ SyncEnd
    \/ SyncReturn

RefreshSpec == Init /\ [][RefreshNext]_vars

(***************************************************************************)
(* Properties                                                              *)
(***************************************************************************)
\* The adapter was asked and returned data
GotData(resp) == resp.fetched # <<>> /\ resp.fetched[1].ok
\* The adapter was asked and returned None
GotNone(resp) == resp.fetched = <<Absent>>
\* A row is stored under the key the service looks `name` up by
Stored(table, name) == GetByName(table, NormalizeName(name)) # {}
\* The three spellings of the corrected name
TeroSpellings == {TERODACTYL, terodactylSp, Terodactyl}

\* C1: in every reachable state the stored names are pairwise distinct and
\* each stored name is its own lowercase normalized form.
C1_NamesUniqueNormalized ==
    /\ \A p, q \in store : p["name"] = q["name"] => p = q
    /\ \A p \in store : /\ p["name"] = LowerOf(p["name"])
                        /\ p["name"] = NormalizeNameOf(p["name"])

\* C2: right after an add of a name not yet stored for which the adapter
\* returned data, get(name) returns a record named normalize(name).
C2_AddThenGet ==
    (last.op = "add" /\ GotData(last)) =>
        LET got == GetPokemon(store, last.name)
        IN  got # <<>> /\ got[1]["name"] = NormalizeNameOf(last.name)

\* C3: two adds in a row of the same name, the adapter returning data: the
\* first creates the record (201), the second reports "already exists" (202),
\* leaves the store as it is and does not ask the adapter again.
C3_AddTwiceIdempotent ==
    [][ ( /\ last.op = "add" /\ GotData(last)
          /\ last'.op = "add" /\ last'.name = last.name
          /\ ~GotNone(last') )
        => ( /\ last.status = 201
             /\ last'.status = 202
             /\ Contains(last'.message, alreadyExists)
             /\ store' = store
             /\ Len(last.calls) + Len(last'.calls) <= 1 ) ]_vars

\* C4: the add route answers 201 exactly when the call created a record, 202
\* exactly when a record for the normalized name existed before the call, and
\* 404 exactly when the external fetch failed.
C4_AddStatusExact ==
    [][ (last'.op = "add" /\ Serving) =>
          /\ (last'.status = 201) <=> (store' # store /\ ~Stored(store, last'.name))
          /\ (last'.status = 202) <=> Stored(store, last'.name)
          /\ (last'.status = 404) <=> GotNone(last') ]_vars

\* C5: when the adapter returns None during an add, the add fails: no record
\* in the response, status 404, a message holding both the original and the
\* normalized input, and the store is left as it was.
C5_AddFetchFailure ==
    [][ (last'.op = "add" /\ GotNone(last')) =>
          /\ ~Stored(store, last'.name)
          /\ last'.pokemon = <<>>
          /\ last'.status = 404
          /\ Contains(last'.message, last'.name)
          /\ Contains(last'.message, NormalizeNameOf(last'.name))
          /\ store' = store ]_vars

\* A failed add of a spelling that differs from its normalized form, with
\* rows in the store
C5_Witness ==
    /\ last.op = "add" /\ GotNone(last) /\ last.status = 404
    /\ last.name = TERODACTYL
    /\ store # {}

\* C6: an update of a name with no row under its normalized form fails (404)
\* without asking the adapter, and leaves the store as it was.
C6_UpdateAbsentNoFetch ==
    [][ (last'.op = "update" /\ Serving /\ ~Stored(store, last'.name)) =>
          /\ last'.status = 404
          /\ last'.calls = <<>>
          /\ last'.fetched = <<>>
          /\ store' = store ]_vars

\* An update that failed locally while other rows are stored
C6_Witness ==
    /\ last.op = "update" /\ last.status = 404 /\ last.calls = <<>>
    /\ ~Stored(store, last.name)
    /\ store # {}

\* C7: after an update of an existing name for which the adapter returned
\* data, the call reports 200 and get(name) returns a record holding the
\* fetched value of every fetched field.
C7_UpdateOverwritesAll ==
    (last.op = "update" /\ GotData(last)) =>
        LET got == GetPokemon(store, last.name)
            raw_data == last.fetched[1].data
        IN  /\ last.status = 200
            /\ got # <<>>
            /\ \A k \in DOMAIN raw_data :
                  got[1][k] = IF k = "name" THEN raw_data[k] ELSE <<raw_data[k]>>

C9_SpellingsOneRecord ==
    [][ (last'.op = "add" /\ Serving /\ last'.name \in TeroSpellings) =>
          /\ last'.calls \in {<<>>, <<aerodactyl>>}
          /\ GetByNameExact(store, aerodactyl) # {} =>
                /\ store' = store
                /\ last'.calls = <<>>
                /\ last'.status = 202
                /\ last'.pokemon # <<>> /\ last'.pokemon[1]["name"] = aerodactyl
          /\ (GotData(last') /\ last'.fetched[1].data["name"] = aerodactyl) =>
                /\ Cardinality(GetByNameExact(store', aerodactyl)) = 1
                /\ store \subseteq store'
                /\ store' \ store \subseteq GetByNameExact(store', aerodactyl)
                /\ last'.status = 201
                /\ last'.pokemon # <<>> /\ last'.pokemon[1]["name"] = aerodactyl ]_vars

\* An add under a spelling was answered "already exists" with the record
\* named aerodactyl
C9_Witness ==
    /\ last.op = "add" /\ last.name = terodactylSp /\ last.status = 202
    /\ last.pokemon # <<>> /\ last.pokemon[1]["name"] = aerodactyl
    /\ Cardinality(GetByNameExact(store, aerodactyl)) = 1

\* C10: a batch sync never raises, processes every name of its list, and at
\* its end the stored names are those stored before plus the names whose
\* fetch succeeded.
C10_SyncIsolatesFailures ==
    /\ sync.pc # "raised"
    /\ sync.pc = "done" =>
          /\ sync.rest = <<>>
          /\ Names(store) = sync.before \cup sync.fetched

\* The number of times the repository method m appears in the calls made
CountOf(repo, m) == Cardinality({i \in 1..Len(repo) : repo[i] = m})

\* C11: a refresh never leaves its loop by an exception and always answers
\* 200; add is invoked once per configured name in list order: the names
\* still to process are a suffix of the list, each processed name cost one
\* lookup, and the adapter was asked for normalized names in list order.
C11_RefreshCompletes ==
    /\ sync.pc # "raised"
    /\ (last.op = "sync" /\ last.status # 0) => last.status = 200
    /\ sync.pc \in {"run", "done"} =>
          LET n == Len(sync.log)
          IN  /\ sync.rest = SubSeq(POKEMON_LIST, n + 1, Len(POKEMON_LIST))
              /\ CountOf(sync.repo, "get_by_name") = n
              /\ sync.pc = "done" => n = Len(POKEMON_LIST)

\* The operations of the five single-record and collection routes
RouteOps == {"list", "get", "add", "delete", "update"}

\* C12 as stated: every request, the batch one included, makes at most one
\* adapter request and at most two repository calls.
C12_EveryRequestOneFetch ==
    /\ Len(last.calls) <= 1 /\ Len(last.repo) <= 2
    /\ Len(sync.calls) <= 1 /\ Len(sync.repo) <= 2

\* C12 as amended: a request to the list, get, add, delete or update route
\* makes at most one adapter request and at most two repository calls; a batch
\* sync makes at most one adapter request and at most two repository calls
\* for each name it has taken from its list.
C12_OneFetchPerName ==
    /\ last.op \in RouteOps => (Len(last.calls) <= 1 /\ Len(last.repo) <= 2)
    /\ LET taken == Len(sync.log) + (IF sync.pc = "raised" THEN 1 ELSE 0)
       IN  /\ Len(sync.calls) <= taken
           /\ Len(sync.repo) <= 2 * taken
           /\ Len(sync.calls) <= CountOf(sync.repo, "get_by_name")

\* A batch sync that fetched and saved for two names in one request
C12_Witness ==
    /\ sync.pc = "done"
    /\ Len(sync.calls) = 2
    /\ Len(sync.repo) = 4

\* C13: no save raises a unique-key conflict, and no thread is about to save
\* a record under the very name it looked up and found absent while a row of
\* that name is in the store.
C13_SaveOnlyAbsentNames ==
    \A t \in Threads :
        /\ procs[t].pc # "raised"
        /\ ( /\ procs[t].pc = "save"
             /\ procs[t].data[1]["name"] = NormalizeNameOf(Head(procs[t].names)) )
           => ~InsertConflicts(store, NewPokemon(procs[t].data[1]))

\* The GET of the call in `fetch` failed: a network error, a timeout, or a
\* response whose status is not 2xx
FetchFailed ==
    \/ fetch.outcome.kind \in {"ConnectionError", "Timeout"}
    \/ /\ fetch.outcome.kind = "response"
       /\ ~(200 <= fetch.outcome.status /\ fetch.outcome.status <= 299)

\* C14: a call of get_pokemon whose GET failed ends in None: it neither
\* raises nor returns data.
C14_FailureGivesNone ==
    (FetchFailed /\ fetch.result.kind # "pending") => fetch.result = ReturnedNone

\* The GET of the call in `fetch` succeeded with a JSON object holding the
\* four scalar fields
FetchedPayload ==
    /\ fetch.outcome.kind = "response"
    /\ fetch.outcome.status = 200
    /\ fetch.outcome.body.json
    /\ RequiredKeys \subseteq DOMAIN fetch.outcome.body.value

\* C15: a successful fetch never fails and returns the eight keys: height and
\* weight are the payload's values divided by 10 (7 gives 0.7, 69 gives 6.9),
\* name and base_experience are copied, abilities, types and moves are the
\* names in payload order, stats maps each stat name to its base_stat, and a
\* nested list the payload lacks gives the empty container.
C15_ProcessedPayload ==
    (FetchedPayload /\ fetch.result.kind # "pending") =>
        /\ fetch.result.kind = "data"
        /\ LET payload == fetch.outcome.body.value
               data == fetch.result.data
               NamesAt(key, wrapper) ==
                   IF key \in DOMAIN payload
                   THEN /\ Len(data[key]) = Len(payload[key])
                        /\ \A i \in 1..Len(payload[key]) :
                              data[key][i] = payload[key][i][wrapper]["name"]
                   ELSE data[key] = <<>>
           IN  /\ DOMAIN data = DataKeys
               /\ 10 * data["height"].whole + data["height"].tenth = payload["height"]
               /\ 10 * data["weight"].whole + data["weight"].tenth = payload["weight"]
               /\ data["height"].tenth \in 0..9 /\ data["weight"].tenth \in 0..9
               /\ payload["height"] = 7 => data["height"] = Decimal(0, 7)
               /\ payload["weight"] = 69 => data["weight"] = Decimal(6, 9)
               /\ data["name"] = payload["name"]
               /\ data["base_experience"] = payload["base_experience"]
               /\ NamesAt("abilities", "ability")
               /\ NamesAt("types", "type")
               /\ NamesAt("moves", "move")
               /\ IF "stats" \in DOMAIN payload
                  THEN /\ DOMAIN data["stats"] =
                             {payload["stats"][i]["stat"]["name"] :
                                 i \in 1..Len(payload["stats"])}
                       /\ \A i \in 1..Len(payload["stats"]) :
                             (\A j \in (i + 1)..Len(payload["stats"]) :
                                 payload["stats"][j]["stat"]["name"]
                                     # payload["stats"][i]["stat"]["name"])
                             => data["stats"][payload["stats"][i]["stat"]["name"]]
                                    = payload["stats"][i]["base_stat"]
                  ELSE DOMAIN data["stats"] = {}

\* A processed payload of height 7 and weight 69 with two abilities and two
\* stats, lacking its types and moves
C15_Witness ==
    /\ FetchedPayload /\ fetch.result.kind = "data"
    /\ fetch.outcome.body.value["height"] = 7
    /\ fetch.outcome.body.value["weight"] = 69
    /\ DOMAIN fetch.outcome.body.value = RequiredKeys \cup {"abilities", "stats"}
    /\ fetch.result.data["abilities"] = <<"overgrow", "chlorophyll">>
    /\ DOMAIN fetch.result.data["stats"] = {"hp", "speed"}
    /\ fetch.result.data["types"] = <<>>
    /\ fetch.result.data["moves"] = <<>>

\* C16: each pass of the batch sync's loop files its add under exactly the
\* bucket of what happened: "added" iff the add created a record, "skipped"
\* iff a record was found before the add, "failed" iff the adapter was asked
\* and returned nothing.
C16_BucketsMatchOutcome ==
    [][ (sync.pc = "run" /\ Len(sync'.log) = Len(sync.log) + 1) =>
          LET name == Head(sync.rest)
              bucket == sync'.log[Len(sync'.log)]
              existed == Stored(store, name)
              created == store' # store
              asked == Len(sync'.calls) = Len(sync.calls) + 1
          IN  /\ bucket \in {"added", "skipped", "failed"}
              /\ (bucket = "added") <=> created
              /\ (bucket = "skipped") <=> existed
              /\ (bucket = "failed") <=> (asked /\ ~created) ]_vars

\* C17: an update leaves the number of rows as it was and every row other
\* than the one found under the normalized name untouched; the row it changed
\* has the id and the creation timestamp of the target; an update that does
\* not answer 200 leaves the whole table as it was.
C17_UpdateFrame ==
    [][ last'.op = "update" =>
          LET target == GetByName(store, NormalizeName(last'.name))
          IN  /\ Cardinality(store') = Cardinality(store)
              /\ store \ target \subseteq store'
              /\ \A q \in store' \ store :
                    \E p \in target : /\ q["id"] = p["id"]
                                      /\ q["created_at"] = p["created_at"]
              /\ \A p \in target :
                    \E q \in store' : /\ q["id"] = p["id"]
                                      /\ q["created_at"] = p["created_at"]
              /\ last'.status # 200 => store' = store
              /\ (target = {} \/ GotNone(last')) => store' = store ]_vars

\* An update that changed its target and stamped it later than it was
\* created, a second row staying in the table
C17_Witness ==
    /\ last.op = "update" /\ last.status = 200
    /\ Cardinality(store) = 2
    /\ \E p \in GetByName(store, NormalizeName(last.name)) :
          /\ p["updated_at"] > p["created_at"]
          /\ p["height"] = <<last.fetched[1].data["height"]>>

====
